---- MODULE Spec2Model ----
(***************************************************************************)
(* DotNote (src/dotnote.py): the message-update / display pipeline.        *)
(*                                                                         *)
(* Threads of control:                                                     *)
(*   - display_loop, the daemon thread started by __main__;                *)
(*   - one update_message handler invocation per /update request;          *)
(*   - one daemon beep thread per accepted request.                        *)
(* Shared state: the global current_message guarded by message_lock, the   *)
(* log file, and the string the Display Driver was last called with.       *)
(*                                                                         *)
(* A Python str is modelled as the sequence of its code points, so that    *)
(* concatenation, strip() and the font lookup are computed, not assumed.   *)
(***************************************************************************)
EXTENDS Integers, Sequences, FiniteSets, TLC

\* Number of /update requests the model lets arrive.
NumRequests == 2

Requests == 1..NumRequests

----------------------------------------------------------------------------
(* Configuration parameters                                                *)

\* "Welcome to DotNote!   "
DEFAULT_MESSAGE ==
    <<87, 101, 108, 99, 111, 109, 101, 32, 116, 111, 32, 68, 111, 116, 78,
      111, 116, 101, 33, 32, 32, 32>>

\* "   "
MESSAGE_SPACING == <<32, 32, 32>>

BUZZER_ENABLED == TRUE

LOG_ENABLED == TRUE

\* "Error: Unsupported character   ", the literal assigned in the except block.
ERROR_MESSAGE ==
    <<69, 114, 114, 111, 114, 58, 32, 85, 110, 115, 117, 112, 112, 111, 114,
      116, 101, 100, 32, 99, 104, 97, 114, 97, 99, 116, 101, 114, 32, 32, 32>>

\* Number of glyphs of CP437_FONT: proportional(CP437_FONT)[ord(ch)] raises
\* IndexError for a code point at or beyond it.
FONT_GLYPHS == 256

----------------------------------------------------------------------------
(* Pure string functions                                                   *)

\* The code points str.strip() removes (among those the model's texts use):
\* space, \t, \n, \v, \f, \r.
Whitespace == {32, 9, 10, 11, 12, 13}

RECURSIVE LStrip(_)
LStrip(s) ==
    IF s # <<>> /\ Head(s) \in Whitespace THEN LStrip(Tail(s)) ELSE s

RECURSIVE RStrip(_)
RStrip(s) ==
    IF s # <<>> /\ s[Len(s)] \in Whitespace
    THEN RStrip(SubSeq(s, 1, Len(s) - 1))
    ELSE s

\* str.strip()
Strip(s) == RStrip(LStrip(s))

\* show_message(device, msg, font=proportional(CP437_FONT)) looks every
\* character up in the font by its code point.
Renderable(m) == \A i \in 1..Len(m) : m[i] < FONT_GLYPHS

----------------------------------------------------------------------------
(* Inputs                                                                  *)

\* Values of the `message` query parameter: "", "\t ", " a ", and the euro
\* sign (U+20AC, not in the font).
Texts == {<<>>, <<9, 32>>, <<32, 97, 32>>, <<8364>>}

\* request.args restricted to the key `message`: <<>> when the parameter is
\* absent, <<t>> when it is present with value t.
Args == {<<>>} \cup {<<t>> : t \in Texts}

\* request.remote_addr
Addrs == {"10.0.0.7"}

----------------------------------------------------------------------------
(* State                                                                   *)

VARIABLES
    current_message,  \* the global current_message
    message_lock,     \* threading.Lock(): TRUE when locked
    loop_pc,          \* display_loop: position of the display thread
    msg,              \* display_loop: the local msg
    displayed,        \* the text show_message was last called with (<<>>: never called)
    pc,               \* update_message: position of each request's handler
    args,             \* update_message: request.args of each request
    remote_addr,      \* update_message: request.remote_addr of each request
    new_message,      \* update_message: the local new_message
    response,         \* update_message: the (body, status) returned
    log_file,         \* the lines of LOG_FILE, oldest first
    log_result,       \* log_message: outcome of each request's append
    beep_pc,          \* the beep thread of each request
    last_writer       \* history: who made the latest assignment to current_message

vars ==
    <<current_message, message_lock, loop_pc, msg, displayed, pc, args,
      remote_addr, new_message, response, log_file, log_result, beep_pc,
      last_writer>>

loop_vars == <<loop_pc, msg, displayed>>

handler_vars == <<pc, args, remote_addr, new_message, response>>

\* jsonify({'error': 'No valid message provided'}), 400
ErrorResponse ==
    [key |-> "error", value |-> "No valid message provided", status |-> 400]

\* jsonify({'message': 'Message updated'}), 200
SuccessResponse ==
    [key |-> "message", value |-> "Message updated", status |-> 200]

\* No response has been returned yet.
NoResponse == [key |-> "", value |-> "", status |-> 0]

\* Values of last_writer.
ByStartup == [thread |-> "main", request |-> 0]

ByDisplayLoop == [thread |-> "display_loop", request |-> 0]

ByRequest(r) == [thread |-> "update_message", request |-> r]

\* Mutant of Init: the store starts out holding the bare spacing.
InitBlankStore ==
    /\ current_message = MESSAGE_SPACING
    /\ message_lock = FALSE
    /\ loop_pc = "acquire_read"
    /\ msg = <<>>
    /\ displayed = <<>>
    /\ pc = [r \in Requests |-> "idle"]
    /\ args = [r \in Requests |-> <<>>]
    /\ remote_addr = [r \in Requests |-> ""]
    /\ new_message = [r \in Requests |-> <<>>]
    /\ response = [r \in Requests |-> NoResponse]
    /\ log_file = <<>>
    /\ log_result = [r \in Requests |-> "none"]
    /\ beep_pc = [r \in Requests |-> "none"]
    /\ last_writer = ByStartup

Init ==
    /\ current_message = DEFAULT_MESSAGE
    /\ message_lock = FALSE
    /\ loop_pc = "acquire_read"
    /\ msg = <<>>
    /\ displayed = <<>>
    /\ pc = [r \in Requests |-> "idle"]
    /\ args = [r \in Requests |-> <<>>]
    /\ remote_addr = [r \in Requests |-> ""]
    /\ new_message = [r \in Requests |-> <<>>]
    /\ response = [r \in Requests |-> NoResponse]
    /\ log_file = <<>>
    /\ log_result = [r \in Requests |-> "none"]
    /\ beep_pc = [r \in Requests |-> "none"]
    /\ last_writer = ByStartup

----------------------------------------------------------------------------
(* display_loop                                                            *)

\* `with message_lock:` at the top of the loop body: blocks until the lock is free.
LoopAcquireRead ==
    /\ loop_pc = "acquire_read"
    /\ message_lock = FALSE
    /\ message_lock' = TRUE
    /\ loop_pc' = "read"
    /\ UNCHANGED <<current_message, msg, displayed, handler_vars, log_file,
                   log_result, beep_pc, last_writer>>

\* Mutant of LoopRead: the loop takes any message a handler has written so
\* far (a backlog of pending messages), not only the store's current value.
LoopReadBacklog ==
    /\ loop_pc = "read"
    /\ msg' \in {current_message}
                \cup {new_message[r] : r \in {q \in Requests : pc[q] \in {"log", "beep", "respond", "done"}
                                                              /\ new_message[q] # <<>>}}
    /\ message_lock' = FALSE
    /\ loop_pc' = "call"
    /\ UNCHANGED <<current_message, displayed, handler_vars, log_file,
                   log_result, beep_pc, last_writer>>

\* Mutant of LoopRead: the call to show_message sits inside the with block, so
\* the lock is still held when the loop leaves the read.
LoopReadKeepsLock ==
    /\ loop_pc = "read"
    /\ msg' = current_message
    /\ loop_pc' = "call"
    /\ UNCHANGED <<current_message, message_lock, displayed, handler_vars,
                   log_file, log_result, beep_pc, last_writer>>

\* `msg = current_message`, then the with block releases the lock.
LoopRead ==
    /\ loop_pc = "read"
    /\ msg' = current_message
    /\ message_lock' = FALSE
    /\ loop_pc' = "call"
    /\ UNCHANGED <<current_message, displayed, handler_vars, log_file,
                   log_result, beep_pc, last_writer>>

\* Mutant of ShowMessageArgument: the call reads the global, not the snapshot.
ShowMessageArgumentGlobal == current_message

\* The text handed to the Display Driver by the call in the try block.
ShowMessageArgument == msg

\* show_message(device, msg, ...) is entered: the driver starts scrolling.
LoopCall ==
    /\ loop_pc = "call"
    /\ displayed' = ShowMessageArgument
    /\ loop_pc' = "render"
    /\ UNCHANGED <<current_message, message_lock, msg, handler_vars, log_file,
                   log_result, beep_pc, last_writer>>

\* Mutant of ShowReturn: after a completed scroll the loop puts the default
\* message back into the store.
ShowReturnResets ==
    /\ loop_pc = "render"
    /\ Renderable(displayed)
    /\ current_message' = DEFAULT_MESSAGE
    /\ last_writer' = ByDisplayLoop
    /\ loop_pc' = "sleep"
    /\ UNCHANGED <<message_lock, msg, displayed, handler_vars, log_file,
                   log_result, beep_pc>>

\* show_message returns normally: possible only when every character is in the font.
ShowReturn ==
    /\ loop_pc = "render"
    /\ Renderable(displayed)
    /\ loop_pc' = "sleep"
    /\ UNCHANGED <<current_message, message_lock, msg, displayed, handler_vars,
                   log_file, log_result, beep_pc, last_writer>>

\* show_message raises (an unsupported character, or any driver fault): the
\* except block is entered and prints the error.
ShowRaise ==
    /\ loop_pc = "render"
    /\ loop_pc' = "acquire_error"
    /\ UNCHANGED <<current_message, message_lock, msg, displayed, handler_vars,
                   log_file, log_result, beep_pc, last_writer>>

\* `with message_lock:` in the except block.
LoopAcquireError ==
    /\ loop_pc = "acquire_error"
    /\ message_lock = FALSE
    /\ message_lock' = TRUE
    /\ loop_pc' = "set_error"
    /\ UNCHANGED <<current_message, msg, displayed, handler_vars, log_file,
                   log_result, beep_pc, last_writer>>

\* Mutant of LoopSetError: the except block only prints, the store is left alone.
LoopSetErrorSkip ==
    /\ loop_pc = "set_error"
    /\ message_lock' = FALSE
    /\ loop_pc' = "sleep"
    /\ UNCHANGED <<current_message, last_writer, msg, displayed, handler_vars,
                   log_file, log_result, beep_pc>>

\* Mutant of LoopSetError: the except block ends with `continue`, skipping
\* the pause.
LoopSetErrorNoSleep ==
    /\ loop_pc = "set_error"
    /\ current_message' = ERROR_MESSAGE
    /\ last_writer' = ByDisplayLoop
    /\ message_lock' = FALSE
    /\ loop_pc' = "acquire_read"
    /\ UNCHANGED <<msg, displayed, handler_vars, log_file, log_result, beep_pc>>

\* Mutant of LoopSetError: the sentinel is written only if the store still
\* holds the snapshot whose rendering failed.
LoopSetErrorIfUnchanged ==
    /\ loop_pc = "set_error"
    /\ IF current_message = msg
       THEN current_message' = ERROR_MESSAGE /\ last_writer' = ByDisplayLoop
       ELSE UNCHANGED <<current_message, last_writer>>
    /\ message_lock' = FALSE
    /\ loop_pc' = "sleep"
    /\ UNCHANGED <<msg, displayed, handler_vars, log_file, log_result, beep_pc>>

\* `current_message = "Error: Unsupported character   "`, then the lock is released.
LoopSetError ==
    /\ loop_pc = "set_error"
    /\ current_message' = ERROR_MESSAGE
    /\ last_writer' = ByDisplayLoop
    /\ message_lock' = FALSE
    /\ loop_pc' = "sleep"
    /\ UNCHANGED <<msg, displayed, handler_vars, log_file, log_result, beep_pc>>

\* time.sleep(0.1), then the next iteration of `while True`.
LoopSleep ==
    /\ loop_pc = "sleep"
    /\ loop_pc' = "acquire_read"
    /\ UNCHANGED <<current_message, message_lock, msg, displayed, handler_vars,
                   log_file, log_result, beep_pc, last_writer>>

display_loop ==
    \/ LoopAcquireRead
    \/ LoopRead
    \/ LoopCall
    \/ ShowReturn
    \/ ShowRaise
    \/ LoopAcquireError
    \/ LoopSetError
    \/ LoopSleep

----------------------------------------------------------------------------
(* update_message                                                          *)

\* request.args.get('message') is None: the parameter is absent.
IsNone(a) == a = <<>>

\* Mutant of Invalid: the whitespace-only test is missing.
InvalidNoStrip(a) == IF IsNone(a) THEN TRUE ELSE a[1] = <<>>

\* `not new_message or new_message.strip() == ""`
Invalid(a) ==
    IF IsNone(a) THEN TRUE ELSE (a[1] = <<>> \/ Strip(a[1]) = <<>>)

\* Mutant of Normalize: the spacing is not appended.
NormalizeNoSpacing(m) == m

\* `new_message + MESSAGE_SPACING`
Normalize(m) == m \o MESSAGE_SPACING

\* Requests are numbered in their order of arrival.
Arrives(r) == pc[r] = "idle" /\ (IF r = 1 THEN TRUE ELSE pc[r - 1] # "idle")

\* Mutant of Reject: the `, 400` is missing, the error payload goes out with
\* Flask's default status 200.
RejectStatus200(r) ==
    /\ Arrives(r)
    /\ \E a \in Args, ip \in Addrs :
        /\ Invalid(a)
        /\ args' = [args EXCEPT ![r] = a]
        /\ remote_addr' = [remote_addr EXCEPT ![r] = ip]
    /\ response' = [response EXCEPT ![r] = [ErrorResponse EXCEPT !.status = 200]]
    /\ pc' = [pc EXCEPT ![r] = "done"]
    /\ UNCHANGED <<current_message, message_lock, loop_vars, new_message,
                   log_file, log_result, beep_pc, last_writer>>

\* A request whose message fails validation: the handler returns the error
\* payload with status 400 and touches nothing but its locals.
Reject(r) ==
    /\ Arrives(r)
    /\ \E a \in Args, ip \in Addrs :
        /\ Invalid(a)
        /\ args' = [args EXCEPT ![r] = a]
        /\ remote_addr' = [remote_addr EXCEPT ![r] = ip]
    /\ response' = [response EXCEPT ![r] = ErrorResponse]
    /\ pc' = [pc EXCEPT ![r] = "done"]
    /\ UNCHANGED <<current_message, message_lock, loop_vars, new_message,
                   log_file, log_result, beep_pc, last_writer>>

\* Mutant of Accept: the stripped text, not the text as received, gets the
\* spacing appended.
AcceptStripped(r) ==
    /\ Arrives(r)
    /\ \E a \in Args, ip \in Addrs :
        /\ ~Invalid(a)
        /\ args' = [args EXCEPT ![r] = a]
        /\ remote_addr' = [remote_addr EXCEPT ![r] = ip]
        /\ new_message' = [new_message EXCEPT ![r] = Normalize(Strip(a[1]))]
    /\ pc' = [pc EXCEPT ![r] = "acquire"]
    /\ UNCHANGED <<current_message, message_lock, loop_vars, response,
                   log_file, log_result, beep_pc, last_writer>>

\* A request whose message passes validation: the spacing is appended and the
\* handler goes on to `with message_lock:`.
Accept(r) ==
    /\ Arrives(r)
    /\ \E a \in Args, ip \in Addrs :
        /\ ~Invalid(a)
        /\ args' = [args EXCEPT ![r] = a]
        /\ remote_addr' = [remote_addr EXCEPT ![r] = ip]
        /\ new_message' = [new_message EXCEPT ![r] = Normalize(a[1])]
    /\ pc' = [pc EXCEPT ![r] = "acquire"]
    /\ UNCHANGED <<current_message, message_lock, loop_vars, response,
                   log_file, log_result, beep_pc, last_writer>>

\* Mutant of HandlerAcquire: the handler enters its critical section without
\* waiting for the lock to be free.
HandlerAcquireNoWait(r) ==
    /\ pc[r] = "acquire"
    /\ message_lock' = TRUE
    /\ pc' = [pc EXCEPT ![r] = "store"]
    /\ UNCHANGED <<current_message, loop_vars, args, remote_addr, new_message,
                   response, log_file, log_result, beep_pc, last_writer>>

\* `with message_lock:` blocks until the lock is free.
HandlerAcquire(r) ==
    /\ pc[r] = "acquire"
    /\ message_lock = FALSE
    /\ message_lock' = TRUE
    /\ pc' = [pc EXCEPT ![r] = "store"]
    /\ UNCHANGED <<current_message, loop_vars, args, remote_addr, new_message,
                   response, log_file, log_result, beep_pc, last_writer>>

\* Mutant of HandlerStore: `+=` in place of `=`, the new text is appended to
\* the old one.
HandlerStoreConcat(r) ==
    /\ pc[r] = "store"
    /\ current_message' = current_message \o new_message[r]
    /\ last_writer' = ByRequest(r)
    /\ message_lock' = FALSE
    /\ pc' = [pc EXCEPT ![r] = "log"]
    /\ UNCHANGED <<loop_vars, args, remote_addr, new_message, response,
                   log_file, log_result, beep_pc>>

\* Mutant of HandlerStore: the beep thread is started inside the with block,
\* before the log append.
HandlerStoreAndBeep(r) ==
    /\ pc[r] = "store"
    /\ current_message' = new_message[r]
    /\ last_writer' = ByRequest(r)
    /\ message_lock' = FALSE
    /\ beep_pc' = [beep_pc EXCEPT ![r] = "beeping"]
    /\ pc' = [pc EXCEPT ![r] = "log"]
    /\ UNCHANGED <<loop_vars, args, remote_addr, new_message, response,
                   log_file, log_result>>

\* `current_message = new_message`, then the with block releases the lock.
HandlerStore(r) ==
    /\ pc[r] = "store"
    /\ current_message' = new_message[r]
    /\ last_writer' = ByRequest(r)
    /\ message_lock' = FALSE
    /\ pc' = [pc EXCEPT ![r] = "log"]
    /\ UNCHANGED <<loop_vars, args, remote_addr, new_message, response,
                   log_file, log_result, beep_pc>>

\* Mutant of LogEntry: the message is logged as passed in, not stripped.
LogEntryRaw(message, ip) == [ip |-> ip, message |-> message]

\* log_entry = f"{timestamp} - {ip} - {message.strip()}\n"; the timestamp is
\* the wall clock's and is left out of the record.
LogEntry(message, ip) == [ip |-> ip, message |-> Strip(message)]

\* log_message(new_message, ip) and the append succeeds (or logging is
\* disabled and the function returns at once).
LogAppend(r) ==
    /\ pc[r] = "log"
    /\ IF LOG_ENABLED
       THEN /\ log_file' = Append(log_file, LogEntry(new_message[r], remote_addr[r]))
            /\ log_result' = [log_result EXCEPT ![r] = "written"]
       ELSE UNCHANGED <<log_file, log_result>>
    /\ pc' = [pc EXCEPT ![r] = "beep"]
    /\ UNCHANGED <<current_message, message_lock, loop_vars, args, remote_addr,
                   new_message, response, beep_pc, last_writer>>

\* Mutant of LogError: no try/except around the append, the exception leaves
\* the handler and Flask answers 500.
LogErrorPropagates(r) ==
    /\ pc[r] = "log"
    /\ LOG_ENABLED
    /\ log_result' = [log_result EXCEPT ![r] = "error"]
    /\ response' = [response EXCEPT ![r] =
            [key |-> "error", value |-> "Internal Server Error", status |-> 500]]
    /\ pc' = [pc EXCEPT ![r] = "done"]
    /\ UNCHANGED <<current_message, message_lock, loop_vars, args, remote_addr,
                   new_message, log_file, beep_pc, last_writer>>

\* log_message(new_message, ip) and open() or write() raises: the exception
\* is caught inside log_message and printed.
LogError(r) ==
    /\ pc[r] = "log"
    /\ LOG_ENABLED
    /\ log_result' = [log_result EXCEPT ![r] = "error"]
    /\ pc' = [pc EXCEPT ![r] = "beep"]
    /\ UNCHANGED <<current_message, message_lock, loop_vars, args, remote_addr,
                   new_message, response, log_file, beep_pc, last_writer>>

\* Mutant of SpawnBeep: the Thread object is created but never started.
SpawnBeepNotStarted(r) ==
    /\ pc[r] = "beep"
    /\ pc' = [pc EXCEPT ![r] = "respond"]
    /\ UNCHANGED <<current_message, message_lock, loop_vars, args, remote_addr,
                   new_message, response, log_file, log_result, beep_pc,
                   last_writer>>

\* `if BUZZER_ENABLED: threading.Thread(target=beep, daemon=True).start()`
SpawnBeep(r) ==
    /\ pc[r] = "beep"
    /\ beep_pc' = [beep_pc EXCEPT ![r] = IF BUZZER_ENABLED THEN "beeping" ELSE @]
    /\ pc' = [pc EXCEPT ![r] = "respond"]
    /\ UNCHANGED <<current_message, message_lock, loop_vars, args, remote_addr,
                   new_message, response, log_file, log_result, last_writer>>

\* Mutant of Respond: the handler joins its beep thread before it returns.
RespondAfterBeep(r) ==
    /\ pc[r] = "respond"
    /\ beep_pc[r] # "beeping"
    /\ response' = [response EXCEPT ![r] = SuccessResponse]
    /\ pc' = [pc EXCEPT ![r] = "done"]
    /\ UNCHANGED <<current_message, message_lock, loop_vars, args, remote_addr,
                   new_message, log_file, log_result, beep_pc, last_writer>>

\* `return jsonify({'message': 'Message updated'}), 200`
Respond(r) ==
    /\ pc[r] = "respond"
    /\ response' = [response EXCEPT ![r] = SuccessResponse]
    /\ pc' = [pc EXCEPT ![r] = "done"]
    /\ UNCHANGED <<current_message, message_lock, loop_vars, args, remote_addr,
                   new_message, log_file, log_result, beep_pc, last_writer>>

update_message(r) ==
    \/ Reject(r)
    \/ Accept(r)
    \/ HandlerAcquire(r)
    \/ HandlerStore(r)
    \/ LogAppend(r)
    \/ LogError(r)
    \/ SpawnBeep(r)
    \/ Respond(r)

----------------------------------------------------------------------------
(* beep                                                                    *)

\* buzzer.beep(..., background=False) returns after the pattern has sounded.
BeepReturn(r) ==
    /\ beep_pc[r] = "beeping"
    /\ beep_pc' = [beep_pc EXCEPT ![r] = "finished"]
    /\ UNCHANGED <<current_message, message_lock, loop_vars, handler_vars,
                   log_file, log_result, last_writer>>

\* buzzer.beep raises (a hardware error): the daemon thread dies with it.
BeepRaise(r) ==
    /\ beep_pc[r] = "beeping"
    /\ beep_pc' = [beep_pc EXCEPT ![r] = "crashed"]
    /\ UNCHANGED <<current_message, message_lock, loop_vars, handler_vars,
                   log_file, log_result, last_writer>>

beep(r) == BeepReturn(r) \/ BeepRaise(r)

----------------------------------------------------------------------------
(* The program                                                             *)

Next ==
    \/ display_loop
    \/ \E r \in Requests : update_message(r)
    \/ \E r \in Requests : beep(r)

Spec == Init /\ [][Next]_vars

\* The steps of a handler after the request has arrived and been accepted.
HandlerStep(r) ==
    \/ HandlerAcquire(r)
    \/ HandlerStore(r)
    \/ LogAppend(r)
    \/ LogError(r)
    \/ SpawnBeep(r)
    \/ Respond(r)

\* A handler thread that can run does run, and a handler waiting for
\* message_lock gets it: each holder keeps it for one assignment only, and the
\* display thread sleeps 0.1 s after every pass before it asks again.
HandlerFairness ==
    \A r \in Requests : WF_vars(HandlerStep(r)) /\ SF_vars(HandlerAcquire(r))

\* The handlers are scheduled and the display thread leaves its two critical
\* sections; nothing is assumed of the Display Driver call (it may never
\* return), of the beep threads, or of the rest of the display thread.
ResponsiveSpec ==
    Spec /\ HandlerFairness /\ WF_vars(LoopRead) /\ WF_vars(LoopSetError)

\* The handlers and the display thread are scheduled, and every Display
\* Driver call returns or raises.
LiveSpec == Spec /\ HandlerFairness /\ WF_vars(display_loop)

----------------------------------------------------------------------------
(* Properties                                                              *)

\* Request r has made its store write.
HasStored(r) ==
    pc[r] \in {"log", "beep", "respond", "done"} /\ response[r] # ErrorResponse

\* The text of request r's message parameter ("" when it is absent).
InputText(r) == IF args[r] = <<>> THEN <<>> ELSE args[r][1]

\* The message parameter is absent, empty or made of whitespace only.
Blank(a) ==
    IF a = <<>> THEN TRUE ELSE \A i \in 1..Len(a[1]) : a[1][i] \in Whitespace

\* Every Python-level string ever assigned to current_message.
WrittenValues ==
    {DEFAULT_MESSAGE, ERROR_MESSAGE}
        \cup {args[r][1] \o MESSAGE_SPACING : r \in {q \in Requests : HasStored(q)}}

\* C1 as stated: at the step in which an accepted request carrying m returns
\* its response, the store holds m + MESSAGE_SPACING, whatever the other
\* requests and the render loop did meanwhile.
C1_Original ==
    [][\A r \in Requests :
        (pc[r] = "respond" /\ pc'[r] = "done")
            => current_message' = args[r][1] \o MESSAGE_SPACING]_vars

\* C1 as amended: once an accepted request carrying m has made its store
\* write, and up to and after its completion, the store holds exactly
\* m + MESSAGE_SPACING for as long as no other writer (another request, or the
\* render loop's failure handler) has assigned the store since.
C1_StoreHoldsOwnWrite ==
    \A r \in Requests :
        (HasStored(r) /\ last_writer = ByRequest(r))
            => current_message = args[r][1] \o MESSAGE_SPACING

\* A request carrying " a " has completed with success and the store holds
\* " a    ".
C1_Witness ==
    \E r \in Requests :
        /\ pc[r] = "done"
        /\ response[r] = SuccessResponse
        /\ args[r] = <<(<<32, 97, 32>>)>>
        /\ last_writer = ByRequest(r)
        /\ current_message = <<32, 97, 32, 32, 32, 32>>

\* C2: a request whose message is absent, empty or whitespace-only gets the
\* error payload with status 400 in the step that handles it, and that step
\* changes neither the store, the lock, the log nor the beep tasks; the
\* rejected request never writes, logs or beeps afterwards.
C2_RejectNoSideEffect ==
    /\ [][\A r \in Requests :
            (pc[r] = "idle" /\ pc'[r] # "idle" /\ Blank(args'[r]))
                => /\ pc'[r] = "done"
                   /\ response'[r] = ErrorResponse
                   /\ current_message' = current_message
                   /\ message_lock' = message_lock
                   /\ log_file' = log_file
                   /\ log_result' = log_result
                   /\ beep_pc' = beep_pc
                   /\ last_writer' = last_writer]_vars
    /\ [](\A r \in Requests :
            (pc[r] # "idle" /\ Blank(args[r]))
                => /\ pc[r] = "done"
                   /\ log_result[r] = "none"
                   /\ beep_pc[r] = "none"
                   /\ last_writer # ByRequest(r))

\* Every request has been rejected, one after the other, and the store, the
\* log and the beep tasks are as at startup.
C2_Witness ==
    /\ \A r \in Requests : pc[r] = "done" /\ response[r] = ErrorResponse
    /\ \E r \in Requests : args[r] = <<(<<9, 32>>)>>
    /\ current_message = DEFAULT_MESSAGE
    /\ log_file = <<>>
    /\ \A r \in Requests : beep_pc[r] = "none"

\* C3 as stated: when an accepted request r1 arrived before an accepted
\* request r2 and completed before it, the store holds r2's message plus the
\* spacing at the step in which r2 completes.
C3_Original ==
    [][\A r1, r2 \in Requests :
        (/\ r1 < r2
         /\ pc[r1] = "done" /\ response[r1] = SuccessResponse
         /\ pc[r2] = "respond" /\ pc'[r2] = "done")
            => current_message' = args[r2][1] \o MESSAGE_SPACING]_vars

\* C3 as amended: the store writes are totally ordered and the later write
\* wins: when a request's store write follows another request's, the store
\* holds exactly the later request's message plus the spacing right after it;
\* and every snapshot the render loop holds is one complete written string
\* (the default, the sentinel, or some accepted message plus the spacing).
C3_LastWriteWinsNoTorn ==
    /\ [][\A r1, r2 \in Requests :
            (/\ last_writer = ByRequest(r1)
             /\ pc[r2] = "store" /\ pc'[r2] = "log")
                => /\ current_message' = args[r2][1] \o MESSAGE_SPACING
                   /\ last_writer' = ByRequest(r2)]_vars
    /\ [](current_message \in WrittenValues)
    /\ [](loop_pc \notin {"acquire_read", "read"} => msg \in WrittenValues)

\* Two accepted requests with different messages have completed, the second
\* wrote last, and the render loop holds a snapshot of the first one's value.
C3_Witness ==
    /\ NumRequests >= 2
    /\ pc[1] = "done" /\ pc[2] = "done"
    /\ args[1] = <<(<<8364>>)>> /\ args[2] = <<(<<32, 97, 32>>)>>
    /\ last_writer = ByRequest(2)
    /\ current_message = <<32, 97, 32, 32, 32, 32>>
    /\ msg = <<8364, 32, 32, 32>>
    /\ loop_pc = "render"

\* C4 as stated: once a Display Driver call has failed, a valid (accepted
\* and renderable) message submitted afterwards eventually becomes the text
\* the render loop hands to the Display Driver.
C4_Original ==
    \A r \in Requests :
        []((loop_pc = "acquire_error" /\ pc[r] = "idle")
            => []((pc[r] = "done" /\ response[r] = SuccessResponse
                     /\ Renderable(InputText(r)))
                    => <>(loop_pc = "render"
                            /\ displayed = InputText(r) \o MESSAGE_SPACING)))

\* C4 as amended: a failed Display Driver call takes the render loop into its
\* failure handler, which it leaves only by writing the sentinel to the store
\* in that same iteration, and the loop then starts a further render pass; a
\* message whose store write is the latest one (so one written after the
\* sentinel) eventually becomes the text handed to the Display Driver, unless
\* another store write (a later request, or the sentinel of a failure that was
\* already under way) replaces it before the loop reads the store.
C4_SentinelThenKeepsLooping ==
    /\ [][(loop_pc \in {"acquire_error", "set_error"})
            => /\ loop_pc' \in {"acquire_error", "set_error", "sleep"}
               /\ (loop_pc' = "sleep" => current_message' = ERROR_MESSAGE)]_vars
    /\ (loop_pc = "acquire_error") ~> (loop_pc = "sleep")
    /\ (loop_pc = "sleep") ~> (loop_pc = "render")
    /\ \A r \in Requests :
        (last_writer = ByRequest(r))
            ~> \/ last_writer # ByRequest(r)
               \/ /\ loop_pc = "render"
                  /\ displayed = InputText(r) \o MESSAGE_SPACING

\* A pass that rendered the sentinel (so a Display Driver call failed and the
\* sentinel was written and read back) is over, a request carrying " a " wrote
\* the store afterwards, and the loop has taken " a    " as the snapshot of
\* the pass it is starting.
C4_Witness ==
    \E r \in Requests :
        /\ loop_pc = "call"
        /\ displayed = ERROR_MESSAGE
        /\ msg = <<32, 97, 32, 32, 32, 32>>
        /\ last_writer = ByRequest(r)

\* C5: the log holds one record per accepted update whose append succeeded
\* and none for a rejected update; an accepted update past its log step has
\* attempted the append; each record carries the sender's address and the
\* trimmed input, which is not the stored value with the spacing suffix.
C5_LogRecords ==
    /\ Len(log_file) = Cardinality({r \in Requests : log_result[r] = "written"})
    /\ \A r \in Requests :
        /\ (pc[r] # "idle" /\ Blank(args[r])) => log_result[r] = "none"
        /\ (HasStored(r) /\ pc[r] # "log") => log_result[r] \in {"written", "error"}
        /\ log_result[r] = "written"
            => \E i \in 1..Len(log_file) :
                /\ log_file[i].ip = remote_addr[r]
                /\ log_file[i].message = Strip(InputText(r))
                /\ log_file[i].message # InputText(r) \o MESSAGE_SPACING
    /\ \A i \in 1..Len(log_file) :
        \E r \in Requests :
            /\ log_result[r] = "written"
            /\ log_file[i].message = Strip(InputText(r))

\* A request carrying " a " was accepted and logged as "a", another request
\* was rejected, and the log holds that one record.
C5_Witness ==
    /\ \E r \in Requests :
        /\ pc[r] = "done"
        /\ args[r] = <<(<<32, 97, 32>>)>>
        /\ current_message = <<32, 97, 32, 32, 32, 32>>
    /\ \E q \in Requests : pc[q] = "done" /\ response[q] = ErrorResponse
    /\ log_file = <<[ip |-> "10.0.0.7", message |-> <<97>>]>>

\* C6: every request that has arrived gets its response, with nothing assumed
\* of the Display Driver call (which may never return) nor of the beep
\* threads (which may never finish).
C6_RequestCompletes ==
    \A r \in Requests :
        (pc[r] # "idle") ~> (pc[r] = "done" /\ response[r] # NoResponse)

\* A request has returned success while the Display Driver call that was in
\* flight before its store write is still in flight and its own beep is
\* still sounding.
C6_Witness ==
    \E r \in Requests :
        /\ pc[r] = "done"
        /\ response[r] = SuccessResponse
        /\ beep_pc[r] = "beeping"
        /\ loop_pc = "render"
        /\ displayed = DEFAULT_MESSAGE
        /\ current_message # DEFAULT_MESSAGE

\* C7: the step in which the log append fails changes nothing but the
\* handler's position (no record is written, the store, its last writer, the
\* lock, the beep tasks and the response are untouched), and a request whose
\* append failed ends like one whose append succeeded: success response and
\* its beep task spawned.
C7_LogFailureContained ==
    /\ [][\A r \in Requests :
            (pc[r] = "log" /\ log_result'[r] = "error")
                => /\ pc'[r] = "beep"
                   /\ UNCHANGED <<current_message, last_writer, message_lock,
                                  log_file, beep_pc, response>>]_vars
    /\ [](\A r \in Requests :
            (pc[r] = "done" /\ log_result[r] \in {"written", "error"})
                => /\ response[r] = SuccessResponse
                   /\ beep_pc[r] # "none")

\* A request carrying " a " whose log append failed has returned success, its
\* value is in the store, its beep is sounding and the log is empty.
C7_Witness ==
    \E r \in Requests :
        /\ pc[r] = "done"
        /\ log_result[r] = "error"
        /\ response[r] = SuccessResponse
        /\ beep_pc[r] = "beeping"
        /\ last_writer = ByRequest(r)
        /\ current_message = <<32, 97, 32, 32, 32, 32>>
        /\ log_file = <<>>

\* C8: while the Display Driver call is in flight the text it was given is the
\* loop's snapshot; the snapshot changes only in the loop's locked read, where
\* it becomes the store's value, and the driver's text changes only when the
\* loop makes its call; a store write during a render leaves the loop in that
\* render with the same text.
C8_SnapshotNoPreemption ==
    /\ [](loop_pc = "render" => displayed = msg)
    /\ [][(msg' # msg) => (loop_pc = "read" /\ msg' = current_message)]_vars
    /\ [][(displayed' # displayed) => (loop_pc = "call" /\ displayed' = msg)]_vars
    /\ [][(loop_pc = "render" /\ current_message' # current_message)
            => (loop_pc' = "render" /\ displayed' = displayed /\ msg' = msg)]_vars

\* The driver is scrolling the default message while a completed request has
\* already replaced the store's value.
C8_Witness ==
    /\ loop_pc = "render"
    /\ displayed = DEFAULT_MESSAGE
    /\ \E r \in Requests :
        /\ pc[r] = "done"
        /\ last_writer = ByRequest(r)
        /\ current_message = <<32, 97, 32, 32, 32, 32>>

\* C9: as long as no request has arrived and the Display Driver has not been
\* called, the store holds DEFAULT_MESSAGE; and when no request has arrived
\* the first call to the Display Driver is given DEFAULT_MESSAGE.
C9_StartupDefault ==
    /\ [](((\A r \in Requests : pc[r] = "idle") /\ displayed = <<>>)
            => current_message = DEFAULT_MESSAGE)
    /\ [][((\A r \in Requests : pc[r] = "idle")
             /\ displayed = <<>> /\ loop_pc = "call" /\ loop_pc' = "render")
            => displayed' = DEFAULT_MESSAGE]_vars

\* No request has arrived and the driver is scrolling "Welcome to DotNote!   ".
C9_Witness ==
    /\ \A r \in Requests : pc[r] = "idle"
    /\ loop_pc = "render"
    /\ Len(displayed) = 22
    /\ displayed = DEFAULT_MESSAGE

\* C10: a request that has returned got the error payload / 400 if its message
\* was absent or blank and the success payload / 200 otherwise, whatever the
\* render loop, the log append and the beep threads did; a request that has
\* not returned has no response.
C10_ResponseByValidity ==
    \A r \in Requests :
        /\ pc[r] = "done"
            => response[r] = (IF Blank(args[r]) THEN ErrorResponse ELSE SuccessResponse)
        /\ pc[r] # "done" => response[r] = NoResponse

\* One request was rejected; another returned success although its log
\* append failed, its beep thread crashed and a rendering failure has put the
\* sentinel in the store.
C10_Witness ==
    \E r, q \in Requests :
        /\ pc[r] = "done" /\ response[r] = SuccessResponse
        /\ log_result[r] = "error"
        /\ beep_pc[r] = "crashed"
        /\ current_message = ERROR_MESSAGE
        /\ pc[q] = "done" /\ response[q] = ErrorResponse

\* The threads inside a store critical section: the display thread between
\* acquiring the lock and its read or its sentinel write, and every handler
\* between acquiring the lock and its store write.
LoopInCS == loop_pc \in {"read", "set_error"}

HandlersInCS == {r \in Requests : pc[r] = "store"}

NumInCS == (IF LoopInCS THEN 1 ELSE 0) + Cardinality(HandlersInCS)

\* C11: at most one thread is inside a store critical section at any time, and
\* a thread inside one holds message_lock.
C11_MutualExclusion ==
    /\ NumInCS <= 1
    /\ NumInCS = 1 => message_lock = TRUE

\* A handler is inside its critical section while the display thread and
\* another handler wait for the lock.
C11_Witness ==
    \E r, q \in Requests :
        /\ pc[r] = "store"
        /\ pc[q] = "acquire"
        /\ loop_pc = "acquire_error"
        /\ message_lock = TRUE

\* C12: a handler reaches its log step only by its store write, appends to
\* the log (or fails to) only in the step after that, spawns its beep task
\* only in the step after the log step, and returns success only in the step
\* after the spawn; so the log records and the beep tasks are each at most as
\* many as the requests that have written the store.
C12_SideEffectOrder ==
    /\ [][\A r \in Requests :
            /\ (pc'[r] = "log" /\ pc[r] # "log")
                => /\ pc[r] = "store"
                   /\ current_message' = InputText(r) \o MESSAGE_SPACING
                   /\ last_writer' = ByRequest(r)
            /\ (log_result'[r] # log_result[r] \/ log_file' # log_file)
                => \E q \in Requests : pc[q] = "log" /\ pc'[q] = "beep"
            /\ (log_result'[r] # log_result[r]) => (pc[r] = "log" /\ pc'[r] = "beep")
            /\ (beep_pc[r] = "none" /\ beep_pc'[r] # "none")
                => (pc[r] = "beep" /\ pc'[r] = "respond")
            /\ (response'[r] = SuccessResponse /\ response[r] # SuccessResponse)
                => (pc[r] = "respond" /\ pc'[r] = "done")]_vars
    /\ [](/\ Len(log_file) <= Cardinality({r \in Requests : HasStored(r)})
          /\ Cardinality({r \in Requests : beep_pc[r] # "none"})
                <= Cardinality({r \in Requests : HasStored(r)}))

\* One request has written the store and logged but not yet spawned its beep;
\* another has written the store and not yet logged: two store writes, one log
\* record, no beep task.
C12_Witness ==
    \E r, q \in Requests :
        /\ pc[r] = "beep" /\ log_result[r] = "written"
        /\ pc[q] = "log"
        /\ Len(log_file) = 1
        /\ \A x \in Requests : beep_pc[x] = "none"

\* The value request r writes to the store.
StoredValue(r) == InputText(r) \o MESSAGE_SPACING

\* Request r's value was written and has been replaced, the render loop holds
\* it neither as its snapshot nor as the driver's text, and no other request
\* carries (or can still arrive with) the same text.
Superseded(r) ==
    /\ HasStored(r)
    /\ last_writer # ByRequest(r)
    /\ current_message # StoredValue(r)
    /\ msg # StoredValue(r)
    /\ displayed # StoredValue(r)
    /\ \A q \in Requests \ {r} : pc[q] # "idle" /\ InputText(q) # InputText(r)

\* C13: the snapshot of a render pass is the value the store holds when the
\* loop reads it, and the driver is given that snapshot; a value that was
\* written and replaced before the loop read it stays out of the snapshot and
\* out of the driver for ever, so of several updates accepted during one
\* render call only the last one written reaches the Display Driver.
C13_IntermediateSuperseded ==
    /\ [][\A r \in Requests : Superseded(r) => Superseded(r)']_vars
    /\ [][(loop_pc = "read" /\ loop_pc' # "read") => msg' = current_message]_vars
    /\ [][(loop_pc # "render" /\ loop_pc' = "render")
            => (msg' = msg /\ displayed' = msg)]_vars

\* Two requests with different texts were accepted and have returned after the
\* loop took the default message as its snapshot and while the driver is still
\* scrolling it; the first one's value is already replaced by the second's.
C13_Witness ==
    /\ NumRequests >= 2
    /\ loop_pc = "render"
    /\ displayed = DEFAULT_MESSAGE
    /\ pc[1] = "done" /\ pc[2] = "done"
    /\ response[1] = SuccessResponse /\ response[2] = SuccessResponse
    /\ Superseded(1)
    /\ last_writer = ByRequest(2)
    /\ current_message = StoredValue(2)

\* The moves of the display thread: IDLE is the pause and the locked snapshot
\* read that follows it, RENDERING is the driver call, and a failed call goes
\* through the failure handler back to the pause.
LoopTransitions ==
    {<<"acquire_read", "read">>, <<"read", "call">>, <<"call", "render">>,
     <<"render", "sleep">>, <<"render", "acquire_error">>,
     <<"acquire_error", "set_error">>, <<"set_error", "sleep">>,
     <<"sleep", "acquire_read">>}

\* C14: the render loop moves only along IDLE -> one snapshot read ->
\* RENDERING -> (failure handler ->) pause -> IDLE, so it pauses after every
\* iteration, failed or not; it is never in a state it cannot leave (it can
\* step, or waits for a lock that a handler is about to release); and when
\* every driver call returns or raises it pauses and starts a render pass
\* again and again for ever.
C14_LoopNeverStops ==
    /\ [][(loop_pc' # loop_pc) => (<<loop_pc, loop_pc'>> \in LoopTransitions)]_vars
    /\ [](ENABLED display_loop \/ (\E r \in Requests : ENABLED HandlerStore(r)))
    /\ []<>(loop_pc = "sleep")
    /\ []<>(loop_pc = "render")

\* The loop pauses after a pass that rendered the sentinel: an earlier driver
\* call failed, the loop went on, and it pauses after this later pass too.
C14_Witness ==
    /\ loop_pc = "sleep"
    /\ displayed = ERROR_MESSAGE
    /\ current_message = ERROR_MESSAGE
    /\ last_writer = ByDisplayLoop

\* C15: the store (and the record of its last writer) changes only in the
\* failure handler's write, which follows a Display Driver call that raised
\* and stores the sentinel, or in the store write of a request whose message
\* passed validation; the step in which a driver call returns normally leaves
\* the store as it is, and the failure handler is entered only from a driver
\* call.
C15_StoreWriters ==
    /\ [][(current_message' # current_message \/ last_writer' # last_writer)
            => \/ /\ loop_pc = "set_error" /\ loop_pc' = "sleep"
                  /\ current_message' = ERROR_MESSAGE
                  /\ last_writer' = ByDisplayLoop
               \/ \E r \in Requests :
                  /\ pc[r] = "store" /\ pc'[r] = "log"
                  /\ ~Blank(args[r])
                  /\ current_message' = InputText(r) \o MESSAGE_SPACING
                  /\ last_writer' = ByRequest(r)]_vars
    /\ [][(loop_pc = "render" /\ loop_pc' = "sleep")
            => (current_message' = current_message /\ last_writer' = last_writer)]_vars
    /\ [][(loop_pc # "acquire_error" /\ loop_pc' = "acquire_error")
            => loop_pc = "render"]_vars

\* The driver call on " a    " has returned normally and the loop pauses: the
\* store still holds " a    " as its request wrote it.
C15_Witness ==
    \E r \in Requests :
        /\ loop_pc = "sleep"
        /\ displayed = <<32, 97, 32, 32, 32, 32>>
        /\ current_message = <<32, 97, 32, 32, 32, 32>>
        /\ last_writer = ByRequest(r)
        /\ pc[r] = "done"

\* C16: a request has a beep task exactly when it was accepted and has passed
\* its spawn step, so an accepted request that has returned has one and a
\* rejected request has none; the beep tasks of different requests run
\* independently of each other and of their handlers.
C16_OneBeepPerAccepted ==
    \A r \in Requests :
        /\ (beep_pc[r] # "none")
            <=> (pc[r] \in {"respond", "done"} /\ response[r] # ErrorResponse)
        /\ (pc[r] = "done" /\ response[r] = SuccessResponse) => beep_pc[r] # "none"
        /\ (pc[r] # "idle" /\ Blank(args[r])) => beep_pc[r] = "none"

\* The beep tasks of two accepted requests that have both returned are
\* sounding at the same time, while the one Display Driver call is in flight.
C16_Witness ==
    /\ NumRequests >= 2
    /\ beep_pc[1] = "beeping" /\ beep_pc[2] = "beeping"
    /\ pc[1] = "done" /\ pc[2] = "done"
    /\ loop_pc = "render"

\* C17: the failure handler's write stores the sentinel whatever the store
\* holds: when a request's value was written after the snapshot whose
\* rendering failed, that write replaces it, the request's handler is not
\* affected (it returns success all the same), and the replaced value, which
\* the loop never read, is from then on superseded: it is not in the store and
\* never reaches the snapshot or the Display Driver.
C17_SentinelOverwritesUpdate ==
    /\ [][\A r \in Requests :
            (/\ loop_pc = "set_error" /\ loop_pc' = "sleep"
             /\ last_writer = ByRequest(r)
             /\ current_message # msg)
                => /\ current_message = StoredValue(r)
                   /\ current_message' = ERROR_MESSAGE
                   /\ last_writer' = ByDisplayLoop
                   /\ pc'[r] = pc[r] /\ response'[r] = response[r]
                   /\ ((/\ msg # StoredValue(r)
                        /\ displayed # StoredValue(r)
                        /\ \A q \in Requests \ {r} :
                            pc[q] # "idle" /\ InputText(q) # InputText(r))
                        => Superseded(r)')]_vars
    /\ [][\A r \in Requests :
            Superseded(r)
                => (Superseded(r)'
                    /\ (pc'[r] = "done" => response'[r] = SuccessResponse))]_vars

\* A request carrying " a " has returned success; its value was written while
\* the default message was the snapshot being rendered, that rendering failed
\* and the sentinel has replaced the value, which was never rendered.
C17_Witness ==
    \E r \in Requests :
        /\ pc[r] = "done" /\ response[r] = SuccessResponse
        /\ args[r] = <<(<<32, 97, 32>>)>>
        /\ Superseded(r)
        /\ loop_pc = "sleep"
        /\ msg = DEFAULT_MESSAGE /\ displayed = DEFAULT_MESSAGE
        /\ current_message = ERROR_MESSAGE
        /\ last_writer = ByDisplayLoop

\* C18: message_lock is held only inside one of the three critical sections
\* (the loop's read, the loop's sentinel write, a handler's store write), never
\* while the loop is about to call or is inside the Display Driver or is
\* sleeping, and never by a handler that is logging, starting its beep or
\* responding; the holder's one read or assignment can always be taken, so the
\* lock is always released and whoever waits for it is never stuck for ever
\* behind a holder that cannot move.
C18_LockHeldBriefly ==
    /\ message_lock = TRUE => NumInCS = 1
    /\ (message_lock = TRUE /\ loop_pc \in {"call", "render", "sleep"})
            => \E r \in Requests : pc[r] = "store"
    /\ (message_lock = TRUE /\ HandlersInCS = {})
            => loop_pc \in {"read", "set_error"}
    /\ message_lock = TRUE
            => ENABLED (LoopRead \/ LoopSetError \/ \E r \in Requests : HandlerStore(r))
    /\ (loop_pc \in {"acquire_read", "acquire_error"} /\ message_lock = FALSE)
            => ENABLED (LoopAcquireRead \/ LoopAcquireError)
    /\ \A r \in Requests :
            (pc[r] = "acquire" /\ message_lock = FALSE) => ENABLED HandlerAcquire(r)

\* The Display Driver call is in flight and one request's beep is sounding
\* while another request holds the lock for its store write: the lock is held
\* by that handler alone, not by the rendering loop or the beeping task.
C18_Witness ==
    \E r, q \in Requests :
        /\ loop_pc = "render"
        /\ pc[r] = "store" /\ message_lock = TRUE
        /\ pc[q] = "done" /\ beep_pc[q] = "beeping"

\* The texts of the requests that passed validation so far.
AcceptedTexts ==
    {InputText(r) : r \in {q \in Requests : pc[q] # "idle" /\ ~Blank(args[q])}}

\* The default message, the error sentinel, and x + MESSAGE_SPACING for every
\* accepted x.
StoreDomain ==
    {DEFAULT_MESSAGE, ERROR_MESSAGE} \cup {x \o MESSAGE_SPACING : x \in AcceptedTexts}

\* C19: the store always holds the default message, the error sentinel, or an
\* accepted request's text exactly as received followed by MESSAGE_SPACING;
\* the loop's snapshot, once taken, and every text passed to the Display Driver
\* is one of these values too.
C19_StoreValueDomain ==
    /\ current_message \in StoreDomain
    /\ loop_pc \in {"call", "render", "acquire_error", "set_error", "sleep"}
            => msg \in StoreDomain
    /\ displayed = <<>> \/ displayed \in StoreDomain
    /\ \A r \in Requests :
            pc[r] \in {"acquire", "store"} => new_message[r] \in StoreDomain

\* The store holds " a " plus the spacing, leading and trailing blank kept,
\* while the driver is scrolling the sentinel that an earlier failed rendering
\* of the euro sign left behind.
C19_Witness ==
    /\ current_message = <<32, 97, 32, 32, 32, 32>>
    /\ displayed = ERROR_MESSAGE
    /\ loop_pc = "render"
    /\ \E r \in Requests : last_writer = ByRequest(r) /\ pc[r] = "done"
    /\ \E q \in Requests : args[q] = <<(<<8364>>)>> /\ pc[q] = "done"

====
